---- MODULE Spec2Model ----
(***************************************************************************)
(* Model of pcx::Reader (src/src/reader.rs): the lane reader, the paletted *)
(* and RGB row readers and the palette extractor.                          *)
(*                                                                         *)
(* Header (palette_length, lane_proper_length, lane_padding) and the       *)
(* run-length Decompressor live outside reader.rs; they are modelled from  *)
(* their documented interface.                                             *)
(***************************************************************************)
EXTENDS Integers, Sequences, FiniteSets, TLC

VARIABLES
    header,          \* Reader::header (immutable after construction)
    decompressor,    \* Reader::decompressor: decompressed data and cursor
    num_lanes_read,  \* Reader::num_lanes_read
    buffer,          \* caller's buffer of next_lane/next_row_paletted/read_palette
    r, g, b,         \* caller's buffers of next_row_rgb
    stream,          \* raw underlying stream behind the decompressor
    temp_buffer,     \* read_palette: staging buffer
    pos,             \* read_palette: write offset into temp_buffer
    pc,              \* "ready" | "palette_loop" | "done" | "aborted"
    call,            \* the last call: operation, arguments, result
    trace_kind       \* the one operation that has returned Ok on every call so far

vars == <<header, decompressor, num_lanes_read, buffer, r, g, b,
          stream, temp_buffer, pos, pc, call, trace_kind>>

-----------------------------------------------------------------------------
(* Bounds of the model *)

MaxWidth == 4         \* largest image width
MaxLaneBytes == 2     \* largest lane_proper_length
MaxStream == 6        \* largest length of the decompressed stream
MaxLanes == 3         \* cap on num_lanes_read
MaxPreceding == 2     \* raw bytes in front of the final 769 bytes: 0..MaxPreceding

-----------------------------------------------------------------------------
(* Arithmetic on u8 / usize *)

Min(x, y) == IF x <= y THEN x ELSE y

RECURSIVE Pow2(_)
Pow2(n) == IF n = 0 THEN 1 ELSE 2 * Pow2(n - 1)

RECURSIVE BitAnd(_, _)
BitAnd(x, y) ==
    IF x = 0 \/ y = 0 THEN 0
    ELSE (x % 2) * (y % 2) + 2 * BitAnd(x \div 2, y \div 2)

\* u8 << s, for s < 8
Shl(x, s) == (x * Pow2(s)) % 256

\* u8 >> s, for s < 8
Shr(x, s) == x \div Pow2(s)

\* a caller's buffer of length n before the call wrote to it
Fresh(n) == [k \in 1..n |-> 170]

\* Option<T>
None == << >>
Some(x) == <<x>>

-----------------------------------------------------------------------------
(* Header *)

\* Header::palette_length(): None for 24-bit RGB, else 2^(bit_depth * planes)
palette_length(h) ==
    IF h.number_of_color_planes = 3 /\ h.bit_depth = 8 THEN None
    ELSE Some(Pow2(h.bit_depth * h.number_of_color_planes))

\* Header::lane_proper_length(): ceil(width * bit_depth / 8)
lane_proper_length(h) == (h.width * h.bit_depth + 7) \div 8

\* Header::lane_padding(): lane_length - lane_proper_length
lane_padding(h) == h.lane_length - lane_proper_length(h)

\* Header::palette[i], i in 0..15: the embedded palette
header_palette(i) == <<3 * i + 1, 3 * i + 2, 3 * i + 3>>

\* the (bit_depth, number_of_color_planes) pairs of the format
Formats == {<<1, 1>>, <<2, 1>>, <<4, 1>>, <<8, 1>>, <<8, 3>>, <<1, 2>>, <<1, 3>>}

\* lane_length as stored: lane_proper_length rounded up to an even number
EvenLaneLength(w, d) == 2 * (((w * d + 7) \div 8 + 1) \div 2)

Headers ==
    { [bit_depth |-> f[1], number_of_color_planes |-> f[2], width |-> w,
       lane_length |-> EvenLaneLength(w, f[1])] :
         f \in Formats, w \in 1..MaxWidth }

ValidHeader(h) == lane_proper_length(h) <= MaxLaneBytes

-----------------------------------------------------------------------------
(* Decompressor: io::Read over the decompressed byte stream *)

Remaining(dec) == Len(dec.data) - dec.pos

\* Decompressor::read(buf) with buf.len() = n: the byte counts it may return
\* (0 only at end of stream or for an empty buffer)
DecompressorRead(dec, n) ==
    IF n = 0 \/ Remaining(dec) = 0 THEN {0}
    ELSE 1..Min(n, Remaining(dec))

\* the decompressed streams of the model
StreamBytes == <<1, 27, 228>>

StreamData(seed, n) ==
    [k \in 1..n |-> StreamBytes[((seed + k) % Len(StreamBytes)) + 1]]

-----------------------------------------------------------------------------
(* Reader *)

Self == [header |-> header, decompressor |-> decompressor,
         num_lanes_read |-> num_lanes_read]

is_paletted(self) == palette_length(self.header) # None

Outcome(self, buf, res) == [self |-> self, buffer |-> buf, result |-> res]

\* the reads and the bookkeeping of next_lane, behind its length check
lane_body(self, buf) ==
      { LET dec == self.decompressor
            buf1 == [k \in 1..Len(buf) |->
                        IF k <= n THEN dec.data[dec.pos + k] ELSE buf[k]]
            dec1 == [dec EXCEPT !.pos = dec.pos + n]
            lap == lane_padding(self.header)
            skipped == Min(lap, Remaining(dec1))
            dec2 == [dec1 EXCEPT !.pos = dec1.pos + skipped]
        IN  IF skipped < lap
            THEN \* read_u8 fails at the end of the stream
                 Outcome([self EXCEPT !.decompressor = dec2], buf1, "UnexpectedEof")
            ELSE Outcome([self EXCEPT !.decompressor = dec2,
                                      !.num_lanes_read = self.num_lanes_read + 1],
                         buf1, "Ok")
        : n \in DecompressorRead(self.decompressor, Len(buf)) }

\* next_lane without its check of the buffer length
next_lane_unchecked(self, buf) == lane_body(self, buf)

\* Reader::next_lane: the outcomes of one call with caller buffer buf
next_lane(self, buf) ==
    IF Len(buf) # lane_proper_length(self.header)
    THEN {Outcome(self, buf, "panic")}
    ELSE lane_body(self, buf)

\* unpack_bits! without the mask
unpack_value_unmasked(bits, byte, j) == Shr(byte, 8 - bits - j)

\* unpack_bits!: the value written for group j of a packed byte
unpack_value(bits, byte, j) ==
    Shr(BitAnd(byte, Shl(Pow2(bits) - 1, 8 - bits - j)), 8 - bits - j)

\* unpack_bits!: index written / index read in iteration (i, j)
WriteIndex(bits, i, j) == i * (8 \div bits) + j
ReadIndex(offset, i) == offset + i

\* unpack_bits!: the loop from its k-th iteration on, k = i * (8/bits) + j;
\* written counts the stores done, an out-of-bounds store panics
RECURSIVE unpack_bits(_, _, _, _, _)
unpack_bits(bits, buf, lane_length, offset, k) ==
    LET i == k \div (8 \div bits)
        j == k % (8 \div bits)
    IN  IF k = lane_length * (8 \div bits)
        THEN [buffer |-> buf, written |-> k, result |-> "Ok"]
        ELSE IF WriteIndex(bits, i, j) >= Len(buf)
        THEN [buffer |-> buf, written |-> k, result |-> "panic"]
        ELSE unpack_bits(bits,
                 [buf EXCEPT ![WriteIndex(bits, i, j) + 1] =
                      unpack_value(bits, buf[ReadIndex(offset, i) + 1], j)],
                 lane_length, offset, k + 1)

RowOutcome(self, buf, res, lane, written) ==
    [self |-> self, buffer |-> buf, result |-> res, lane |-> lane, written |-> written]

\* next_row_paletted, the packed case (one plane, at most 16 colours);
\* lane is the packed lane next_lane left in the tail of the buffer
packed_row(self, buf) ==
    LET lane_length == lane_proper_length(self.header)
        buffer_len == Len(buf)
    IN  IF buffer_len < lane_length
        THEN \* buffer.len() - lane_length overflows, or the slice is out of range
             {RowOutcome(self, buf, "panic", << >>, 0)}
        ELSE LET offset == buffer_len - lane_length IN
             { LET buf1 == SubSeq(buf, 1, offset) \o o.buffer IN
               IF o.result # "Ok"
               THEN RowOutcome(o.self, buf1, o.result, << >>, 0)
               ELSE IF self.header.bit_depth \in {1, 2, 4}
               THEN LET u == unpack_bits(self.header.bit_depth, buf1,
                                         lane_length, offset, 0)
                    IN  RowOutcome(o.self, u.buffer, u.result, o.buffer, u.written)
               ELSE RowOutcome(o.self, buf1, "panic", o.buffer, 0)
               : o \in next_lane(self, SubSeq(buf, offset + 1, buffer_len)) }

\* next_row_paletted, the 256-colour case
lane_row(self, buf) ==
    {RowOutcome(o.self, o.buffer, o.result, << >>, 0) : o \in next_lane(self, buf)}

\* next_row_paletted without its check of is_paletted
next_row_paletted_unchecked(self, buf) ==
    IF palette_length(self.header) = Some(256) THEN lane_row(self, buf)
    ELSE IF self.header.number_of_color_planes = 1 THEN packed_row(self, buf)
    ELSE {RowOutcome(self, buf, "Ok", << >>, 0)}

\* next_row_paletted taking the packed path for planar images too
next_row_paletted_planar(self, buf) ==
    IF ~is_paletted(self)
    THEN {RowOutcome(self, buf, "InvalidInput", << >>, 0)}
    ELSE IF palette_length(self.header) = Some(256) THEN lane_row(self, buf)
    ELSE packed_row(self, buf)

\* Reader::next_row_paletted: the outcomes of one call with caller buffer buf
next_row_paletted(self, buf) ==
    IF ~is_paletted(self)
    THEN {RowOutcome(self, buf, "InvalidInput", << >>, 0)}
    ELSE IF palette_length(self.header) = Some(256) THEN lane_row(self, buf)
    ELSE IF self.header.number_of_color_planes = 1 THEN packed_row(self, buf)
    ELSE {RowOutcome(self, buf, "Ok", << >>, 0)}

RgbOutcome(self, rr, gg, bb, res) ==
    [self |-> self, r |-> rr, g |-> gg, b |-> bb, result |-> res]

\* next_row_rgb reading all three lanes whatever the earlier ones returned,
\* and reporting the first failure
rgb_lanes_continue(self, rr, gg, bb) ==
    UNION { UNION { { RgbOutcome(o3.self, o1.buffer, o2.buffer, o3.buffer,
                                 IF o1.result # "Ok" THEN o1.result
                                 ELSE IF o2.result # "Ok" THEN o2.result
                                 ELSE o3.result)
                      : o3 \in next_lane(o2.self, bb) }
                    : o2 \in next_lane(o1.self, gg) }
            : o1 \in next_lane(self, rr) }

\* next_row_rgb, the three lane reads R, G, B
rgb_lanes(self, rr, gg, bb) ==
         UNION { IF o1.result # "Ok"
                 THEN {RgbOutcome(o1.self, o1.buffer, gg, bb, o1.result)}
                 ELSE UNION { IF o2.result # "Ok"
                              THEN {RgbOutcome(o2.self, o1.buffer, o2.buffer, bb, o2.result)}
                              ELSE {RgbOutcome(o3.self, o1.buffer, o2.buffer, o3.buffer,
                                               o3.result) : o3 \in next_lane(o2.self, bb)}
                              : o2 \in next_lane(o1.self, gg) }
                 : o1 \in next_lane(self, rr) }

\* next_row_rgb without its check of the lane counter
next_row_rgb_unaligned(self, rr, gg, bb) ==
    IF is_paletted(self)
    THEN {RgbOutcome(self, rr, gg, bb, "InvalidInput")}
    ELSE rgb_lanes(self, rr, gg, bb)

\* Reader::next_row_rgb: the outcomes of one call with caller buffers rr, gg, bb
next_row_rgb(self, rr, gg, bb) ==
    IF is_paletted(self)
    THEN {RgbOutcome(self, rr, gg, bb, "InvalidInput")}
    ELSE IF self.num_lanes_read % 3 # 0
    THEN {RgbOutcome(self, rr, gg, bb, "InvalidInput")}
    ELSE rgb_lanes(self, rr, gg, bb)

-----------------------------------------------------------------------------
(* Palette extractor *)

PALETTE_LENGTH == 256 * 3
TEMP_BUFFER_LENGTH == PALETTE_LENGTH + 1

\* the sizes a single read of the raw stream may deliver (capped by the room
\* in the slice and by what is left of the stream)
ReadSizes == {1, 384, 385, TEMP_BUFFER_LENGTH}

\* colour byte c (1..768) of the trailing palette of the model's files
ColourByte(c) == (c * 7 + 3) % 256

\* The raw stream left behind the pixel data: len bytes, of which off are
\* consumed.  The final 769 bytes are mark followed by the 768 colour bytes;
\* a shorter stream is the tail of that block.
RawByte(st, k) ==
    LET q == k - (st.len - TEMP_BUFFER_LENGTH)
    IN  IF q <= 0 THEN 1 + (k % 5)
        ELSE IF q = 1 THEN st.mark
        ELSE ColourByte(q - 1)

RawRemaining(st) == st.len - st.off

\* [T]::copy_from_slice into buf[from..to] (0-based, half-open)
CopyInto(buf, from, src) ==
    [k \in 1..Len(buf) |->
        IF k > from /\ k <= from + Len(src) THEN src[k - from] ELSE buf[k]]

PaletteOutcome(buf, res, value) == [buffer |-> buf, result |-> res, value |-> value]

\* read_palette, the stores of the embedded-palette loop from entry i on
RECURSIVE copy_header_palette(_, _, _)
copy_header_palette(buf, n, i) ==
    IF i = n THEN PaletteOutcome(buf, "Ok", n)
    ELSE IF (i + 1) * 3 > Len(buf) THEN PaletteOutcome(buf, "panic", 0)
    ELSE copy_header_palette(CopyInto(buf, i * 3, header_palette(i)), n, i + 1)

\* read_palette returning the length of the embedded palette without copying it
read_palette_match_nocopy(self, buf) ==
    LET pl == palette_length(self.header)
    IN  IF pl # None /\ pl[1] >= 1 /\ pl[1] <= 16
        THEN PaletteOutcome(buf, "Ok", pl[1])
        ELSE IF pl = Some(256) THEN PaletteOutcome(buf, "loop", 0)
        ELSE PaletteOutcome(buf, "Ok", 0)

\* read_palette looking for a trailing palette whenever none is embedded
read_palette_match_trailing(self, buf) ==
    LET pl == palette_length(self.header)
    IN  IF pl # None /\ pl[1] >= 1 /\ pl[1] <= 16
        THEN copy_header_palette(buf, pl[1], 0)
        ELSE PaletteOutcome(buf, "loop", 0)

\* read_palette, the match on palette_length: "loop" stands for falling
\* through to the trailing-palette loop
read_palette_match(self, buf) ==
    LET pl == palette_length(self.header)
    IN  IF pl # None /\ pl[1] >= 1 /\ pl[1] <= 16
        THEN copy_header_palette(buf, pl[1], 0)
        ELSE IF pl = Some(256) THEN PaletteOutcome(buf, "loop", 0)
        ELSE PaletteOutcome(buf, "Ok", 0)

LoopOutcome(temp, p, st, buf, res, value) ==
    [temp_buffer |-> temp, pos |-> p, stream |-> st, buffer |-> buf,
     result |-> res, value |-> value]

\* read_palette, the end-of-file branch of the loop
read_palette_eof(temp, p, st, buf) ==
    IF temp[p + 1] # 12
    THEN LoopOutcome(temp, p, st, buf, "InvalidData", 0)
    ELSE IF Len(buf) < TEMP_BUFFER_LENGTH - p - 1
    THEN LoopOutcome(temp, p, st, buf, "panic", 0)
    ELSE LET buf1 == CopyInto(buf, 0, SubSeq(temp, p + 2, TEMP_BUFFER_LENGTH))
         IN  IF Len(buf) < PALETTE_LENGTH
             THEN LoopOutcome(temp, p, st, buf1, "panic", 0)
             ELSE LoopOutcome(temp, p, st,
                              CopyInto(buf1, TEMP_BUFFER_LENGTH - p - 1, SubSeq(temp, 1, p)),
                              "Ok", 256)

\* read_palette, the slice of temp_buffer a refill reads into: [from, to)
refill_slice(p) == [from |-> p, to |-> TEMP_BUFFER_LENGTH - p]

\* read_palette, one iteration of the loop: the outcomes of the read
read_palette_loop(temp, p, st, buf) ==
    IF refill_slice(p).from > refill_slice(p).to
    THEN \* temp_buffer[pos..(TEMP_BUFFER_LENGTH - pos)]: start beyond end
         {LoopOutcome(temp, p, st, buf, "panic", 0)}
    ELSE LET room == refill_slice(p).to - refill_slice(p).from
         IN  IF room = 0 \/ RawRemaining(st) = 0
             THEN {read_palette_eof(temp, p, st, buf)}
             ELSE { LET read == Min(c, Min(room, RawRemaining(st)))
                    IN  LoopOutcome(
                            [k \in 1..TEMP_BUFFER_LENGTH |->
                                IF k > p /\ k <= p + read
                                THEN RawByte(st, st.off + (k - p)) ELSE temp[k]],
                            (p + read) % TEMP_BUFFER_LENGTH,
                            [st EXCEPT !.off = st.off + read],
                            buf, "pending", 0)
                    : c \in ReadSizes }

-----------------------------------------------------------------------------
(* State machine *)

\* what the caller can observe of the reader and of its own buffers before a call
Before == [pos |-> decompressor.pos, num_lanes_read |-> num_lanes_read,
           buffer |-> buffer, r |-> r, g |-> g, b |-> b]

NoCall == [op |-> "none", result |-> "none", value |-> 0, before |-> << >>,
           lane |-> << >>, written |-> 0]

Call(op, res, value, before, lane, written) ==
    [op |-> op, result |-> res, value |-> value, before |-> before,
     lane |-> lane, written |-> written]

\* the program counter after a call that returned res
After(res) == IF res = "panic" THEN "aborted" ELSE "ready"

\* trace_kind after operation op returned res
Kind(op, res) ==
    IF res = "Ok" /\ trace_kind \in {"none", op} THEN op ELSE "mixed"

\* the buffer lengths a caller passes to next_lane for an image with header h
LaneBufLens(h) ==
    { n \in { lane_proper_length(h) - 1, lane_proper_length(h),
              lane_proper_length(h) + 1 } : n >= 0 }

\* the buffer lengths a caller passes to next_row_paletted: around the width,
\* and the number of indices the packed lane unpacks to; an RGB image refuses
\* the call before it looks at the buffer, so two lengths stand for all
RowBufLens(h) ==
    IF palette_length(h) = None THEN {h.width, h.width + 1}
    ELSE { n \in { h.width - 1, h.width, h.width + 1,
                   lane_proper_length(h) * (8 \div h.bit_depth) } : n >= 0 }

\* the buffer lengths a caller passes to next_row_rgb: at most one is wrong;
\* a paletted image refuses the call before it looks at the buffers
RgbBufLens(h) ==
    IF palette_length(h) # None THEN {<<h.width, h.width, h.width>>}
    ELSE { <<h.width, h.width, h.width>>, <<h.width + 1, h.width, h.width>>,
           <<h.width, h.width - 1, h.width>>, <<h.width, h.width, h.width + 1>> }

\* the buffer lengths a caller passes to read_palette
PaletteBufLens(h) ==
    IF palette_length(h) = Some(256) THEN {PALETTE_LENGTH - 1, PALETTE_LENGTH}
    ELSE IF palette_length(h) = None THEN {0, 3 * 16}
    ELSE {3 * palette_length(h)[1] - 1, 3 * 16}

\* the byte contents of the stream vary where the unpacking looks at them
Seeds(h) ==
    IF h.number_of_color_planes = 1 /\ h.bit_depth < 8
    THEN 0..(Len(StreamBytes) - 1) ELSE {0}

NoStream == [len |-> 0, mark |-> 0, off |-> 0]

\* raw streams that end before a whole trailing palette
ShortStreams == { [len |-> n, mark |-> 12, off |-> 0] : n \in 0..1 }

\* raw streams around and beyond the size of the trailing palette
LongStreams ==
    { [len |-> n, mark |-> m, off |-> 0] :
        n \in {0, 1, 385, PALETTE_LENGTH}
              \cup { TEMP_BUFFER_LENGTH + p : p \in 0..MaxPreceding }
              \cup { TEMP_BUFFER_LENGTH + 400 },
        m \in {12, 0} }

InitReader(headers, streams) ==
    /\ header \in { h \in headers : ValidHeader(h) }
    /\ \E seed \in Seeds(header), n \in 0..MaxStream :
          decompressor = [data |-> StreamData(seed, n), pos |-> 0]
    /\ num_lanes_read = 0
    /\ buffer = << >> /\ r = << >> /\ g = << >> /\ b = << >>
    /\ IF palette_length(header) = Some(256)
       THEN stream \in streams ELSE stream = NoStream
    /\ temp_buffer = << >>
    /\ pos = 0
    /\ pc = "ready"
    /\ call = NoCall
    /\ trace_kind = "none"

Init == InitReader(Headers, ShortStreams)

NextLane ==
    /\ pc = "ready"
    /\ num_lanes_read < MaxLanes
    /\ \E n \in LaneBufLens(header) : \E o \in next_lane(Self, Fresh(n)) :
         /\ decompressor' = o.self.decompressor
         /\ num_lanes_read' = o.self.num_lanes_read
         /\ buffer' = o.buffer
         /\ call' = Call("next_lane", o.result, 0,
                         [Before EXCEPT !.buffer = Fresh(n)], << >>, 0)
         /\ pc' = After(o.result)
         /\ trace_kind' = Kind("next_lane", o.result)
    /\ UNCHANGED <<header, r, g, b, stream, temp_buffer, pos>>

NextRowPaletted ==
    /\ pc = "ready"
    /\ num_lanes_read < MaxLanes
    /\ \E n \in RowBufLens(header) : \E o \in next_row_paletted(Self, Fresh(n)) :
         /\ decompressor' = o.self.decompressor
         /\ num_lanes_read' = o.self.num_lanes_read
         /\ buffer' = o.buffer
         /\ call' = Call("next_row_paletted", o.result, 0,
                         [Before EXCEPT !.buffer = Fresh(n)], o.lane, o.written)
         /\ pc' = After(o.result)
         /\ trace_kind' = Kind("next_row_paletted", o.result)
    /\ UNCHANGED <<header, r, g, b, stream, temp_buffer, pos>>

NextRowRgb ==
    /\ pc = "ready"
    /\ num_lanes_read < MaxLanes
    /\ \E t \in RgbBufLens(header) :
       \E o \in next_row_rgb(Self, Fresh(t[1]), Fresh(t[2]), Fresh(t[3])) :
         /\ decompressor' = o.self.decompressor
         /\ num_lanes_read' = o.self.num_lanes_read
         /\ r' = o.r /\ g' = o.g /\ b' = o.b
         /\ call' = Call("next_row_rgb", o.result, 0,
                         [Before EXCEPT !.r = Fresh(t[1]), !.g = Fresh(t[2]), !.b = Fresh(t[3])],
                         << >>, 0)
         /\ pc' = After(o.result)
         /\ trace_kind' = Kind("next_row_rgb", o.result)
    /\ UNCHANGED <<header, buffer, stream, temp_buffer, pos>>

\* read_palette up to the first iteration of its loop
ReadPalette ==
    /\ pc = "ready"
    /\ \E n \in PaletteBufLens(header) :
         LET o == read_palette_match(Self, Fresh(n))
         IN  /\ buffer' = o.buffer
             /\ IF o.result = "loop"
                THEN /\ temp_buffer' = [k \in 1..TEMP_BUFFER_LENGTH |-> 0]
                     /\ pc' = "palette_loop"
                     /\ call' = Call("read_palette", "pending", 0,
                                     [Before EXCEPT !.buffer = Fresh(n)], << >>, 0)
                ELSE /\ temp_buffer' = temp_buffer
                     /\ pc' = IF o.result = "panic" THEN "aborted" ELSE "done"
                     /\ call' = Call("read_palette", o.result, o.value,
                                     [Before EXCEPT !.buffer = Fresh(n)], << >>, 0)
    /\ pos' = 0
    /\ trace_kind' = "mixed"
    /\ UNCHANGED <<header, decompressor, num_lanes_read, r, g, b, stream>>

\* one iteration of the loop of read_palette
ReadPaletteLoop ==
    /\ pc = "palette_loop"
    /\ \E o \in read_palette_loop(temp_buffer, pos, stream, buffer) :
         /\ temp_buffer' = o.temp_buffer
         /\ pos' = o.pos
         /\ stream' = o.stream
         /\ buffer' = o.buffer
         /\ call' = [call EXCEPT !.result = o.result, !.value = o.value]
         /\ pc' = CASE o.result = "pending" -> "palette_loop"
                    [] o.result = "panic" -> "aborted"
                    [] OTHER -> "done"
    /\ UNCHANGED <<header, decompressor, num_lanes_read, r, g, b, trace_kind>>

Next == NextLane \/ NextRowPaletted \/ NextRowRgb \/ ReadPalette \/ ReadPaletteLoop

Spec == Init /\ [][Next]_vars

\* the palette extractor on 256-colour images, over longer raw streams
Headers256 == { h \in Headers : palette_length(h) = Some(256) }

InitPalette ==
    /\ InitReader(Headers256, LongStreams)
    /\ header.width = 1
    /\ Len(decompressor.data) = 0

NextPalette == ReadPalette \/ ReadPaletteLoop

SpecPalette == InitPalette /\ [][NextPalette]_vars

-----------------------------------------------------------------------------
(* Properties *)

\* a single-plane image of packed depth 1, 2 or 4
Packed(h) == h.number_of_color_planes = 1 /\ h.bit_depth \in {1, 2, 4}

\* bits [lo, hi) of a byte
Bits(byte, lo, hi) == (byte \div Pow2(lo)) % Pow2(hi - lo)

\* byte i (0-based) packed from the indices in buf, most-significant group first
RECURSIVE PackByte(_, _, _, _)
PackByte(d, buf, i, j) ==
    IF j = 8 \div d THEN 0
    ELSE buf[i * (8 \div d) + j + 1] * Pow2(8 - d * (j + 1)) + PackByte(d, buf, i, j + 1)

\* read_palette has returned or aborted
PaletteCallEnded == call.op = "read_palette" /\ pc \in {"done", "aborted"}

\* C1: on a 256-colour image whose raw stream ends with 0x0C and 768 colour
\* bytes, read_palette returns 256 and buffer[0..768] holds the colour bytes in
\* file order, whatever precedes them and however the stream splits its reads.
C1_TrailingPalette ==
    ( /\ PaletteCallEnded
      /\ palette_length(header) = Some(256)
      /\ stream.len >= TEMP_BUFFER_LENGTH /\ stream.mark = 12
      /\ Len(call.before.buffer) >= PALETTE_LENGTH )
    => /\ call.result = "Ok" /\ call.value = 256
       /\ \A c \in 1..PALETTE_LENGTH : buffer[c] = ColourByte(c)

\* C2: on a 256-colour image whose raw stream has no 0x0C at the head of its
\* final 769 bytes (or is shorter than 769 bytes), read_palette returns an
\* InvalidData error, never a panic and never Ok.
C2_MissingMarker ==
    ( /\ PaletteCallEnded
      /\ palette_length(header) = Some(256)
      /\ (stream.len < TEMP_BUFFER_LENGTH \/ stream.mark # 12) )
    => call.result = "InvalidData"

\* C3: on an RGB image, next_row_rgb called while the lane counter is not a
\* multiple of 3 returns InvalidInput and leaves the cursor, the lane counter
\* and r, g, b unchanged.
C3_RgbMisaligned ==
    ( /\ call.op = "next_row_rgb"
      /\ ~is_paletted(Self)
      /\ call.before.num_lanes_read % 3 # 0 )
    => /\ call.result = "InvalidInput"
       /\ decompressor.pos = call.before.pos
       /\ num_lanes_read = call.before.num_lanes_read
       /\ r = call.before.r /\ g = call.before.g /\ b = call.before.b

C3_Witness ==
    /\ call.op = "next_row_rgb"
    /\ ~is_paletted(Self)
    /\ call.before.num_lanes_read % 3 # 0
    /\ call.before.pos > 0
    /\ call.result = "InvalidInput"

\* C4: after a successful next_row_paletted on a packed image of depth d,
\* buffer[i*(8/d)+j] holds bits [8-d(j+1), 8-dj) of lane byte i.
C4_UnpackBits ==
    ( /\ call.op = "next_row_paletted" /\ call.result = "Ok"
      /\ Packed(header)
      /\ Len(call.before.buffer) = header.width )
    => \A i \in 0..(lane_proper_length(header) - 1) :
       \A j \in 0..((8 \div header.bit_depth) - 1) :
          buffer[i * (8 \div header.bit_depth) + j + 1] =
             Bits(call.lane[i + 1], 8 - header.bit_depth * (j + 1),
                  8 - header.bit_depth * j)

\* C5: packing the indices next_row_paletted produced, 8/d to a byte and the
\* most-significant group first, gives back the packed lane.
C5_RoundTrip ==
    ( /\ call.op = "next_row_paletted" /\ call.result = "Ok"
      /\ Packed(header)
      /\ Len(call.before.buffer) = header.width )
    => \A i \in 0..(lane_proper_length(header) - 1) :
          PackByte(header.bit_depth, buffer, i, 0) = call.lane[i + 1]

\* C6: every value the unpacking of next_row_paletted stores in the row buffer
\* lies in [0, 2^d).
C6_IndexRange ==
    ( /\ call.op = "next_row_paletted"
      /\ Packed(header) )
    => \A k \in 1..call.written :
          buffer[k] >= 0 /\ buffer[k] < Pow2(header.bit_depth)

C6_Witness ==
    /\ call.op = "next_row_paletted" /\ call.result = "Ok"
    /\ Packed(header) /\ header.bit_depth = 4
    /\ call.written = 4
    /\ \E k \in 1..call.written : buffer[k] > 1

\* C7: with a buffer of length width the in-place unpacking is safe: every store
\* is inside the buffer and at or behind the byte being read, and no packed
\* byte is overwritten before its last group is extracted.
C7_InPlaceSafe ==
    ( /\ call.op = "next_row_paletted"
      /\ Packed(header)
      /\ Len(call.before.buffer) = header.width
      /\ call.lane # << >> )
    => LET d == header.bit_depth
           len == lane_proper_length(header)
           offset == header.width - len
       IN  /\ call.result = "Ok"
           /\ \A i \in 0..(len - 1) : \A j \in 0..((8 \div d) - 1) :
                /\ WriteIndex(d, i, j) < header.width
                /\ WriteIndex(d, i, j) <= ReadIndex(offset, i)
                /\ \A i2 \in 0..(len - 1) :
                      WriteIndex(d, i, j) = ReadIndex(offset, i2)
                         => (i2 < i \/ (i2 = i /\ j = (8 \div d) - 1))

\* C8: a next_lane that returns Ok has filled the buffer with the next
\* lane_proper_length bytes of the decompressed stream and moved the cursor by
\* lane_length; after k such calls from construction the cursor is k * lane_length.
C8_LaneFilled ==
    ( call.op = "next_lane" /\ call.result = "Ok" )
    => /\ call.before.pos + lane_proper_length(header) <= Len(decompressor.data)
       /\ buffer = SubSeq(decompressor.data, call.before.pos + 1,
                          call.before.pos + lane_proper_length(header))
       /\ decompressor.pos = call.before.pos + header.lane_length
       /\ (trace_kind = "next_lane"
             => decompressor.pos = num_lanes_read * header.lane_length)

\* C9: next_lane on a stream that ends before lane_length further bytes returns
\* an I/O error and does not count the lane.
C9_TruncatedLane ==
    ( /\ call.op = "next_lane"
      /\ Len(call.before.buffer) = lane_proper_length(header)
      /\ Len(decompressor.data) - call.before.pos < header.lane_length )
    => /\ call.result = "UnexpectedEof"
       /\ num_lanes_read = call.before.num_lanes_read

\* C10: next_lane with a buffer of any length but lane_proper_length panics
\* before it reads a byte or counts a lane.
C10_LaneLengthPanic ==
    ( /\ call.op = "next_lane"
      /\ Len(call.before.buffer) # lane_proper_length(header) )
    => /\ call.result = "panic"
       /\ pc = "aborted"
       /\ decompressor.pos = call.before.pos
       /\ num_lanes_read = call.before.num_lanes_read
       /\ buffer = call.before.buffer

C10_Witness ==
    /\ call.op = "next_lane"
    /\ Len(call.before.buffer) = lane_proper_length(header) + 1
    /\ Remaining(decompressor) > 0
    /\ call.result = "panic"

\* C11: next_row_paletted on a 256-colour or packed image with a buffer whose
\* length is not the image width aborts: it returns neither Ok nor an error.
C11_RowLengthPanic ==
    ( /\ call.op = "next_row_paletted"
      /\ (palette_length(header) = Some(256) \/ Packed(header))
      /\ Len(call.before.buffer) # header.width )
    => /\ call.result = "panic"
       /\ decompressor.pos = call.before.pos
       /\ num_lanes_read = call.before.num_lanes_read

\* C12: next_row_paletted on a non-paletted image and next_row_rgb on a paletted
\* image return InvalidInput and leave the cursor, the lane counter and the
\* caller's buffers unchanged.
C12_WrongKind ==
    ( \/ (call.op = "next_row_paletted" /\ ~is_paletted(Self))
      \/ (call.op = "next_row_rgb" /\ is_paletted(Self)) )
    => /\ call.result = "InvalidInput"
       /\ pc = "ready"
       /\ decompressor.pos = call.before.pos
       /\ num_lanes_read = call.before.num_lanes_read
       /\ buffer = call.before.buffer
       /\ r = call.before.r /\ g = call.before.g /\ b = call.before.b

C12_Witness ==
    /\ call.op = "next_row_paletted" /\ ~is_paletted(Self)
    /\ call.before.num_lanes_read > 0
    /\ Len(call.before.buffer) # header.width
    /\ call.result = "InvalidInput"

\* C13: with an embedded palette of n colours (1..16) read_palette returns n,
\* copies header palette entry i to buffer[3i..3i+3], leaves the rest of the
\* buffer alone and reads neither the decompressor nor the raw stream.
C13_EmbeddedPalette ==
    ( /\ call.op = "read_palette"
      /\ palette_length(header) # None
      /\ palette_length(header)[1] <= 16
      /\ Len(call.before.buffer) >= 3 * palette_length(header)[1] )
    => LET n == palette_length(header)[1]
       IN  /\ call.result = "Ok" /\ call.value = n
           /\ pc = "done"
           /\ Len(buffer) = Len(call.before.buffer)
           /\ \A i \in 0..(n - 1) :
                 SubSeq(buffer, 3 * i + 1, 3 * i + 3) = header_palette(i)
           /\ \A k \in (3 * n + 1)..Len(buffer) : buffer[k] = call.before.buffer[k]
           /\ decompressor = [decompressor EXCEPT !.pos = call.before.pos]
           /\ num_lanes_read = call.before.num_lanes_read
           /\ stream.off = 0 /\ temp_buffer = << >>

C13_Witness ==
    /\ call.op = "read_palette"
    /\ palette_length(header) = Some(4)
    /\ Len(call.before.buffer) > 12
    /\ call.before.pos > 0
    /\ call.result = "Ok"
    /\ buffer[12] = 12 /\ buffer[13] = 170

\* C14: on an RGB image read_palette returns 0 with any buffer, writes nothing
\* and reads nothing.
C14_NoPalette ==
    ( call.op = "read_palette" /\ palette_length(header) = None )
    => /\ call.result = "Ok" /\ call.value = 0
       /\ pc = "done"
       /\ buffer = call.before.buffer
       /\ decompressor.pos = call.before.pos
       /\ num_lanes_read = call.before.num_lanes_read
       /\ stream.off = 0 /\ temp_buffer = << >>

C14_Witness ==
    /\ call.op = "read_palette" /\ palette_length(header) = None
    /\ call.before.buffer = << >>
    /\ call.before.num_lanes_read = 3
    /\ call.result = "Ok" /\ call.value = 0

\* the decompressed stream is the pixel data of a whole image: rows lanes
ValidImage(rows) ==
    rows >= 1 /\ Len(decompressor.data) = rows * header.lane_length

\* C15: on a valid 256-colour file of height h, h successful next_row_paletted
\* calls from construction count h lanes and leave the stream at the first byte
\* behind the pixel data, with nothing of the trailing palette consumed.
C15_RowsReachPalette ==
    \A h \in 1..MaxStream :
       ( /\ palette_length(header) = Some(256)
         /\ ValidImage(h)
         /\ trace_kind = "next_row_paletted"
         /\ num_lanes_read = h )
       => /\ decompressor.pos = h * header.lane_length
          /\ stream.off = 0

\* C16: a successful next_row_rgb reads three consecutive lanes, into r, g and
\* b, and raises the lane counter by 3; after h successful rows from
\* construction the counter is 3h.
C16_RgbRow ==
    ( call.op = "next_row_rgb" /\ call.result = "Ok" )
    => LET p == call.before.pos
           len == lane_proper_length(header)
           ll == header.lane_length
       IN  /\ num_lanes_read = call.before.num_lanes_read + 3
           /\ p + 2 * ll + len <= Len(decompressor.data)
           /\ r = SubSeq(decompressor.data, p + 1, p + len)
           /\ g = SubSeq(decompressor.data, p + ll + 1, p + ll + len)
           /\ b = SubSeq(decompressor.data, p + 2 * ll + 1, p + 2 * ll + len)
           /\ decompressor.pos = p + 3 * ll
           /\ (trace_kind = "next_row_rgb" => num_lanes_read % 3 = 0)

\* C17: in the loop of read_palette pos stays in [0, 769), every refill reads
\* into the non-empty region from pos to the end of the staging buffer, and the
\* loop ends only when a read returns 0 at the end of the stream.
C17_RefillRegion ==
    /\ pc = "palette_loop"
         => /\ pos >= 0 /\ pos < TEMP_BUFFER_LENGTH
            /\ refill_slice(pos).from = pos
            /\ refill_slice(pos).from < refill_slice(pos).to
            /\ refill_slice(pos).to = TEMP_BUFFER_LENGTH
    /\ (PaletteCallEnded /\ palette_length(header) = Some(256))
         => /\ RawRemaining(stream) = 0
            /\ refill_slice(pos).from < refill_slice(pos).to

C19_PlanarNoOp ==
    ( /\ call.op = "next_row_paletted"
      /\ is_paletted(Self)
      /\ header.number_of_color_planes > 1
      /\ palette_length(header) # Some(256) )
    => /\ call.result = "Ok"
       /\ pc = "ready"
       /\ buffer = call.before.buffer
       /\ decompressor.pos = call.before.pos
       /\ num_lanes_read = call.before.num_lanes_read

C19_Witness ==
    /\ call.op = "next_row_paletted"
    /\ header.number_of_color_planes = 3 /\ header.bit_depth = 1
    /\ Len(call.before.buffer) = header.width
    /\ Remaining(decompressor) >= header.lane_length
    /\ call.result = "Ok"

\* C20: in every state reached by next_lane, next_row_paletted and next_row_rgb
\* calls, failed ones included, the cursor is lane counter * lane_length.
C20_CursorAligned ==
    call.op # "read_palette"
       => decompressor.pos = num_lanes_read * header.lane_length

====
